---- MODULE Spec2Model ----
(***************************************************************************)
(* Model of the hybrid eager/lazy task graph of                            *)
(* src/python/wub_graph/g_hybrid.py: TaskNode, DAGRegistry and DAG.        *)
(*                                                                         *)
(* Representation.  A TaskNode object is an index into the sequence objs   *)
(* (the heap); a reference to a node is that index.  A node name is a      *)
(* sequence of one-character strings, so that f"{name}_{dt}" is sequence   *)
(* concatenation and sorted() is the lexicographic order.  A value is an   *)
(* integer; Python's None is the integer None below.  A node function is   *)
(* a record [op, k, key] interpreted by Invoke.  Errors are strings: ""    *)
(* for a normal return, otherwise the name of the exception raised.        *)
(***************************************************************************)
EXTENDS Integers, Sequences, FiniteSets, TLC

VARIABLES
    objs,            \* heap of TaskNode objects, indexed by object id
    nodes,           \* DAGRegistry.nodes: sequence of [name, obj], in dict order
    input_nodes,     \* DAGRegistry.input_nodes: sequence of [name, dt, obj]
    cached_values,   \* DAGRegistry.cached_values: function key -> value
    eager_executed,  \* DAG.eager_executed
    scopes           \* the nodes of the OverrideContext objects entered and not
                     \* yet exited, innermost last

vars == <<objs, nodes, input_nodes, cached_values, eager_executed, scopes>>

----------------------------------------------------------------------------
(* Values, modes, names *)

None == 0 - 1

EAGER == "eager"
LAZY == "lazy"
CACHED == "cached"

\* The characters that occur in names, in code-point order.
Alphabet == <<"-", "0", "1", "2", "3", "4", "5", "6", "7", "8", "9", "_",
              "a", "b", "c", "d", "e", "f", "g", "h", "i", "j", "k", "l", "m",
              "n", "o", "p", "q", "r", "s", "t", "u", "v", "w", "x", "y", "z">>

CharRank(ch) == CHOOSE i \in 1..Len(Alphabet) : Alphabet[i] = ch

RECURSIVE NameLess(_, _)
\* Python's str.__lt__, which sorted() uses in _print_state.
NameLess(x, y) ==
    IF y = <<>> THEN FALSE
    ELSE IF x = <<>> THEN TRUE
    ELSE IF Head(x) = Head(y) THEN NameLess(Tail(x), Tail(y))
    ELSE CharRank(Head(x)) < CharRank(Head(y))

\* f"{name}_{dt}"
DatedName(name, dt) == name \o <<"_">> \o dt

----------------------------------------------------------------------------
(* Sequence helpers *)

Range(s) == {s[i] : i \in 1..Len(s)}

Contains(s, x) == \E i \in 1..Len(s) : s[i] = x

RECURSIVE SumSeq(_)
SumSeq(s) == IF s = <<>> THEN 0 ELSE Head(s) + SumSeq(Tail(s))

RECURSIVE ProdSeq(_)
ProdSeq(s) == IF s = <<>> THEN 1 ELSE Head(s) * ProdSeq(Tail(s))

RECURSIVE Horner(_, _, _)
\* ((v1 * k) + v2) * k + v3 ...: a function that depends on argument order
Horner(s, k, acc) == IF s = <<>> THEN acc ELSE Horner(Tail(s), k, acc * k + Head(s))

----------------------------------------------------------------------------
(* Node functions *)

Fn(op, k) == [op |-> op, k |-> k, key |-> <<>>]

\* lambda: None of DAGRegistry.input
InputFn == Fn("none", 0)

\* load_func of the CACHED branch, closing over node_name, dt and func
LoadFn(key, k) == [op |-> "load", k |-> k, key |-> key]

\* What a user function returns on the given positional arguments.
\* "raise" is a function that raises ValueError.
UserCall(f, vals) ==
    CASE f.op = "const" -> [val |-> f.k, err |-> ""]
      [] f.op = "sum"   -> [val |-> SumSeq(vals) + f.k, err |-> ""]
      [] f.op = "prod"  -> [val |-> ProdSeq(vals) * f.k, err |-> ""]
      [] f.op = "horner" -> [val |-> Horner(vals, f.k, 0), err |-> ""]
      [] f.op = "none"  -> [val |-> None, err |-> ""]
      [] f.op = "raise" -> [val |-> None, err |-> "ValueError"]

----------------------------------------------------------------------------
(* TaskNode *)

\* TaskNode.__init__, the fields
NewNode(name, func, deps, mode, can_set) ==
    [name |-> name, func |-> func, dependencies |-> deps, dependents |-> <<>>,
     mode |-> mode, can_set |-> can_set,
     result |-> None, is_computed |-> FALSE, is_dirty |-> TRUE,
     override_stack |-> <<>>]

RECURSIVE LinkDependents(_, _, _)
\* for dep in self.dependencies: dep.dependents.append(self)
LinkDependents(h, deps, self) ==
    IF deps = <<>> THEN h
    ELSE LinkDependents(
            [h EXCEPT ![Head(deps)].dependents = Append(@, self)],
            Tail(deps), self)

\* TaskNode(...): the heap after constructing a node; its id is Len(h) + 1
Construct(h, name, func, deps, mode, can_set) ==
    LinkDependents(Append(h, NewNode(name, func, deps, mode, can_set)),
                   deps, Len(h) + 1)

\* The evaluation state threaded through compute/get_value:
\* heap, cached_values, and the trace of function invocations.
EvalState(h, cv) == [h |-> h, cv |-> cv, inv |-> <<>>, under |-> <<>>]

Ret(S, val, err) == [S |-> S, val |-> val, err |-> err]

\* the return of self.func(*dependency_values), with the call recorded
Called(S, r) == Ret(S, r.val, r.err)

\* Invoke with a load_func that does not look into cached_values
InvokeUncached(S, n, vals) ==
    LET f == S.h[n].func
        S1 == [S EXCEPT !.inv = Append(@, n)]
    IN  IF f.op = "load"
        THEN Ret([S1 EXCEPT !.cv = (f.key :> f.k) @@ @,
                            !.under = Append(@, f.key)],
                 f.k, "")
        ELSE Called(S1, UserCall(f, vals))

\* self.func(*dependency_values), line 92; for a CACHED node func is load_func
Invoke(S, n, vals) ==
    LET f == S.h[n].func
        S1 == [S EXCEPT !.inv = Append(@, n)]
    IN  IF f.op = "load"
        THEN IF f.key \in DOMAIN S1.cv
             THEN Ret(S1, S1.cv[f.key], "")
             ELSE Ret([S1 EXCEPT !.cv = (f.key :> f.k) @@ @,
                                 !.under = Append(@, f.key)],
                      f.k, "")
        ELSE Called(S1, UserCall(f, vals))

RECURSIVE GetValue(_, _)
RECURSIVE Compute(_, _, _)
RECURSIVE DepValues(_, _, _)

\* DepNext with the value put in front of the list: the dependency values
\* then reach the function in reverse order
DepNextReversed(g, rest, acc) ==
    IF g.err # "" THEN [S |-> g.S, vals |-> acc, err |-> g.err]
    ELSE DepValues(g.S, rest, <<g.val>> \o acc)

\* the list comprehension of compute, after dep.get_value() returned g
DepNext(g, rest, acc) ==
    IF g.err # "" THEN [S |-> g.S, vals |-> acc, err |-> g.err]
    ELSE DepValues(g.S, rest, Append(acc, g.val))

\* [dep.get_value() for dep in self.dependencies]
DepValues(S, deps, acc) ==
    IF deps = <<>> THEN [S |-> S, vals |-> acc, err |-> ""]
    ELSE DepNext(GetValue(S, Head(deps)), Tail(deps), acc)

\* ComputeStore without line 94: the node stays dirty after it is computed
ComputeStoreStaysDirty(r, n) ==
    IF r.err # "" THEN r
    ELSE Ret([r.S EXCEPT !.h[n].result = r.val,
                         !.h[n].is_computed = TRUE],
             r.val, "")

\* compute, lines 92-97: r is the return of the function
ComputeStore(r, n) ==
    IF r.err # "" THEN r
    ELSE Ret([r.S EXCEPT !.h[n].result = r.val,
                         !.h[n].is_computed = TRUE,
                         !.h[n].is_dirty = FALSE],
             r.val, "")

\* ComputeCall without the check of lines 81-84: the function is called on
\* whatever the dependencies gave
ComputeCallUnchecked(dv, n) ==
    IF dv.err # "" THEN Ret(dv.S, None, dv.err)
    ELSE ComputeStore(Invoke(dv.S, n, dv.vals), n)

\* compute, lines 81-92: dv is the list of dependency values
ComputeCall(dv, n) ==
    IF dv.err # "" THEN Ret(dv.S, None, dv.err)
    ELSE IF \E i \in 1..Len(dv.vals) : dv.vals[i] = None
    THEN Ret(dv.S, None, "")
    ELSE ComputeStore(Invoke(dv.S, n, dv.vals), n)

\* TaskNode.compute
Compute(S, n, force) ==
    IF ~force /\ ~S.h[n].is_dirty /\ S.h[n].is_computed
    THEN Ret(S, S.h[n].result, "")
    ELSE ComputeCall(DepValues(S, S.h[n].dependencies, <<>>), n)

\* the first entry of the stack instead of the last
OverrideBottom(stack) == stack[1]

\* self._override_stack[-1]
OverrideTop(stack) == stack[Len(stack)]

\* get_value, lines 111-114: c is the return of self.compute()
GetValueComputed(c, n) ==
    IF c.err # "" THEN c ELSE Ret(c.S, c.S.h[n].result, "")

\* get_value recomputing a LAZY or CACHED node on every read, dirty or not
GetValueForced(S, n) ==
    IF S.h[n].override_stack # <<>>
    THEN Ret(S, OverrideTop(S.h[n].override_stack), "")
    ELSE IF S.h[n].mode = LAZY \/ S.h[n].mode = CACHED
    THEN GetValueComputed(Compute(S, n, TRUE), n)
    ELSE Ret(S, S.h[n].result, "")

\* TaskNode.get_value
GetValue(S, n) ==
    IF S.h[n].override_stack # <<>>
    THEN Ret(S, OverrideTop(S.h[n].override_stack), "")
    ELSE IF S.h[n].is_dirty /\ (S.h[n].mode = LAZY \/ S.h[n].mode = CACHED)
    THEN GetValueComputed(Compute(S, n, FALSE), n)
    ELSE Ret(S, S.h[n].result, "")

RECURSIVE MarkDirty(_, _)
RECURSIVE MarkDirtyEach(_, _)

\* for dep in self.dependents: dep.mark_dirty()
MarkDirtyEach(h, ds) ==
    IF ds = <<>> THEN h
    ELSE MarkDirtyEach(MarkDirty(h, Head(ds)), Tail(ds))

\* mark_dirty returning at once on a node that is already dirty
MarkDirtyStops(h, n) ==
    IF h[n].is_dirty THEN h
    ELSE MarkDirtyEach([h EXCEPT ![n].is_dirty = TRUE], h[n].dependents)

\* mark_dirty that stops at the node: no recursion into its dependents
MarkDirtyShallow(h, n) == [h EXCEPT ![n].is_dirty = TRUE]

\* TaskNode.mark_dirty
MarkDirty(h, n) ==
    LET h1 == IF ~h[n].is_dirty THEN [h EXCEPT ![n].is_dirty = TRUE] ELSE h
    IN  MarkDirtyEach(h1, h1[n].dependents)

\* TaskNode.mark_dependents_dirty
MarkDependentsDirty(h, n) == MarkDirtyEach(h, h[n].dependents)

\* set_value without line 133: the dependents are left as they are
SetValueNodeQuiet(h, n, v) ==
    [h EXCEPT ![n].result = v, ![n].is_computed = TRUE, ![n].is_dirty = FALSE]

\* TaskNode.set_value, after the can_set check
SetValueNode(h, n, v) ==
    MarkDependentsDirty(
        [h EXCEPT ![n].result = v, ![n].is_computed = TRUE, ![n].is_dirty = FALSE],
        n)

\* __enter__ putting the value under the stack instead of on top of it
OverrideEnterFront(h, n, w) ==
    MarkDependentsDirty([h EXCEPT ![n].override_stack = <<w>> \o @], n)

\* OverrideContext.__enter__
OverrideEnterNode(h, n, w) ==
    MarkDependentsDirty([h EXCEPT ![n].override_stack = Append(@, w)], n)

\* __exit__ without the pop
OverrideExitKeeps(h, n) == MarkDependentsDirty(h, n)

\* OverrideContext.__exit__, when the stack is not empty
OverrideExitNode(h, n) ==
    MarkDependentsDirty(
        [h EXCEPT ![n].override_stack = SubSeq(@, 1, Len(@) - 1)], n)

\* reset without line 177: the node stays clean
ResetNodeKeepsClean(h, n) ==
    IF h[n].is_computed
    THEN [h EXCEPT ![n].is_computed = FALSE, ![n].override_stack = <<>>]
    ELSE h

\* reset that also forgets who depends on the node
ResetNodeUnlinks(h, n) ==
    IF h[n].is_computed
    THEN [h EXCEPT ![n].is_computed = FALSE, ![n].is_dirty = TRUE,
                   ![n].override_stack = <<>>, ![n].dependents = <<>>]
    ELSE h

\* TaskNode.reset
ResetNode(h, n) ==
    IF h[n].is_computed
    THEN [h EXCEPT ![n].is_computed = FALSE, ![n].is_dirty = TRUE,
                   ![n].override_stack = <<>>]
    ELSE h

----------------------------------------------------------------------------
(* DAGRegistry: the nodes dict *)

RegNames(reg) == [i \in 1..Len(reg) |-> reg[i].name]

RegHas(reg, name) == \E i \in 1..Len(reg) : reg[i].name = name

\* self.nodes[name]
RegGet(reg, name) == reg[CHOOSE i \in 1..Len(reg) : reg[i].name = name].obj

\* self.nodes[name] = node: a new key goes last, an existing key keeps its place
RegPut(reg, name, obj) ==
    IF RegHas(reg, name)
    THEN [i \in 1..Len(reg) |->
            IF reg[i].name = name THEN [name |-> name, obj |-> obj] ELSE reg[i]]
    ELSE Append(reg, [name |-> name, obj |-> obj])

RECURSIVE ResetEach(_, _, _)
\* for node in self.nodes.values(): node.reset()
ResetEach(h, reg, i) ==
    IF i > Len(reg) THEN h ELSE ResetEach(ResetNode(h, reg[i].obj), reg, i + 1)

\* DAGRegistry.reset: the heap afterwards (cached_values becomes {})
RegistryResetHeap(h, reg) == ResetEach(h, reg, 1)

----------------------------------------------------------------------------
(* DAG: _build_graph and _topological_sort *)

RECURSIVE EdgesOf(_, _, _)
\* the (dep.name, node_name) pairs of one node, in dependency-list order
EdgesOf(h, deps, node_name) ==
    IF deps = <<>> THEN <<>>
    ELSE <<[from |-> h[Head(deps)].name, to |-> node_name]>>
            \o EdgesOf(h, Tail(deps), node_name)

RECURSIVE EdgeList(_, _, _)
\* all pairs, in the order in which _build_graph appends them
EdgeList(h, reg, i) ==
    IF i > Len(reg) THEN <<>>
    ELSE EdgesOf(h, h[reg[i].obj].dependencies, reg[i].name)
            \o EdgeList(h, reg, i + 1)

RECURSIVE TargetsOf(_, _)
\* adjacency_list[name]
TargetsOf(edges, name) ==
    IF edges = <<>> THEN <<>>
    ELSE IF Head(edges).from = name
         THEN <<Head(edges).to>> \o TargetsOf(Tail(edges), name)
         ELSE TargetsOf(Tail(edges), name)

\* _build_graph over the pairs it appends.  adjacency_list[dep.name] raises
\* KeyError when a dependency's name is not a key of registry.nodes.
GraphOf(h, reg, edges) ==
    IF \E i \in 1..Len(edges) : \A j \in 1..Len(reg) : reg[j].name # edges[i].from
    THEN [err |-> "KeyError", adjacency_list |-> <<>>, in_degree |-> <<>>]
    ELSE [err |-> "",
          adjacency_list |-> [nm \in {reg[j].name : j \in 1..Len(reg)} |->
                                TargetsOf(edges, nm)],
          in_degree |-> [nm \in {reg[j].name : j \in 1..Len(reg)} |->
                            Len(h[RegGet(reg, nm)].dependencies)]]

\* DAG._build_graph
BuildGraph(h, reg) == GraphOf(h, reg, EdgeList(h, reg, 1))

RECURSIVE Relax(_, _, _)
\* for dependent_node in adjacency_list[current_node]: ...
Relax(targets, in_degree, queue) ==
    IF targets = <<>> THEN [in_degree |-> in_degree, queue |-> queue]
    ELSE Relax(Tail(targets),
               [in_degree EXCEPT ![Head(targets)] = @ - 1],
               IF in_degree[Head(targets)] - 1 = 0
               THEN Append(queue, Head(targets)) ELSE queue)

RECURSIVE Kahn(_, _, _, _)
\* the while loop, after the for loop over one node's dependents left r
KahnNext(adjacency_list, r, sorted_nodes) ==
    Kahn(adjacency_list, r.in_degree, r.queue, sorted_nodes)

\* Kahn with each node put in front of sorted_nodes: the order reversed
KahnReversed(adjacency_list, in_degree, queue, sorted_nodes) ==
    IF queue = <<>> THEN sorted_nodes
    ELSE KahnNext(adjacency_list,
                  Relax(adjacency_list[Head(queue)], in_degree, Tail(queue)),
                  <<Head(queue)>> \o sorted_nodes)

\* while queue: ...
Kahn(adjacency_list, in_degree, queue, sorted_nodes) ==
    IF queue = <<>> THEN sorted_nodes
    ELSE KahnNext(adjacency_list,
                  Relax(adjacency_list[Head(queue)], in_degree, Tail(queue)),
                  Append(sorted_nodes, Head(queue)))

RECURSIVE Reversed(_)
Reversed(s) == IF s = <<>> THEN <<>> ELSE Append(Reversed(Tail(s)), Head(s))

\* the queue seeded with the last registered node first
ZeroDegreeReversed(reg, in_degree) ==
    Reversed(SelectSeq(RegNames(reg), LAMBDA nm : in_degree[nm] = 0))

\* queue = [name for name, degree in in_degree.items() if degree == 0]
ZeroDegree(reg, in_degree) ==
    SelectSeq(RegNames(reg), LAMBDA nm : in_degree[nm] = 0)

\* SortCheck without the length check: the order is returned as it is
SortCheckSilent(reg, sorted_nodes) ==
    [err |-> "", order |-> sorted_nodes, missing |-> {}]

\* _topological_sort, lines 483-488: the length check
SortCheck(reg, sorted_nodes) ==
    IF Len(sorted_nodes) # Len(reg)
    THEN [err |-> "ValueError", order |-> sorted_nodes,
          missing |-> {reg[j].name : j \in 1..Len(reg)}
                        \ {sorted_nodes[i] : i \in 1..Len(sorted_nodes)}]
    ELSE [err |-> "", order |-> sorted_nodes, missing |-> {}]

\* _topological_sort, lines 467-481: Kahn's algorithm over the graph g
SortGraph(reg, g) ==
    IF g.err # "" THEN [err |-> g.err, order |-> <<>>, missing |-> {}]
    ELSE SortCheck(reg, Kahn(g.adjacency_list, g.in_degree,
                             ZeroDegree(reg, g.in_degree), <<>>))

\* DAG._topological_sort
TopologicalSort(h, reg) == SortGraph(reg, BuildGraph(h, reg))

----------------------------------------------------------------------------
(* DAG: run_eager_nodes, get_node_value, execute *)

RECURSIVE EagerLoop(_, _, _)
\* the loop of run_eager_nodes, after node.compute() returned c
EagerNext(c, reg, rest) ==
    IF c.err # "" THEN c ELSE EagerLoop(c.S, reg, rest)

\* the loop computing no node
EagerLoopSkips(S, reg, order) == Ret(S, None, "")

RECURSIVE EagerLoopDirty(_, _, _)
\* the loop of EagerLoopDirty, after node.compute() returned c
EagerNextDirty(c, reg, rest) ==
    IF c.err # "" THEN c ELSE EagerLoopDirty(c.S, reg, rest)

\* the loop of run_eager_nodes testing is_dirty where line 509 tests
\* is_computed
EagerLoopDirty(S, reg, order) ==
    IF order = <<>> THEN Ret(S, None, "")
    ELSE IF S.h[RegGet(reg, Head(order))].mode = EAGER
            /\ S.h[RegGet(reg, Head(order))].is_dirty
    THEN EagerNextDirty(Compute(S, RegGet(reg, Head(order)), FALSE),
                        reg, Tail(order))
    ELSE EagerLoopDirty(S, reg, Tail(order))

RECURSIVE EagerLoopForced(_, _, _)
\* the loop of EagerLoopForced, after node.compute(force=True) returned c
EagerNextForced(c, reg, rest) ==
    IF c.err # "" THEN c ELSE EagerLoopForced(c.S, reg, rest)

\* the loop of run_eager_nodes computing every EAGER node, computed or not
EagerLoopForced(S, reg, order) ==
    IF order = <<>> THEN Ret(S, None, "")
    ELSE IF S.h[RegGet(reg, Head(order))].mode = EAGER
    THEN EagerNextForced(Compute(S, RegGet(reg, Head(order)), TRUE),
                         reg, Tail(order))
    ELSE EagerLoopForced(S, reg, Tail(order))

\* for node_name in topo_order: ...
EagerLoop(S, reg, order) ==
    IF order = <<>> THEN Ret(S, None, "")
    ELSE IF S.h[RegGet(reg, Head(order))].mode = EAGER
            /\ ~S.h[RegGet(reg, Head(order))].is_computed
    THEN EagerNext(Compute(S, RegGet(reg, Head(order)), FALSE), reg, Tail(order))
    ELSE EagerLoop(S, reg, Tail(order))

\* run_eager_nodes setting the flag although the pass was aborted
EagerDoneRecords(e) ==
    IF e.err = "ValueError"
    THEN [S |-> e.S, flag |-> TRUE, err |-> "", caught |-> TRUE]
    ELSE IF e.err # ""
    THEN [S |-> e.S, flag |-> FALSE, err |-> e.err, caught |-> FALSE]
    ELSE [S |-> e.S, flag |-> TRUE, err |-> "", caught |-> FALSE]

\* run_eager_nodes, lines 514-519: e is the outcome of the loop
EagerDone(e) ==
    IF e.err = "ValueError"
    THEN [S |-> e.S, flag |-> FALSE, err |-> "", caught |-> TRUE]
    ELSE IF e.err # ""
    THEN [S |-> e.S, flag |-> FALSE, err |-> e.err, caught |-> FALSE]
    ELSE [S |-> e.S, flag |-> TRUE, err |-> "", caught |-> FALSE]

\* EagerSorted going on with the nodes sorted so far when the sort failed
EagerSortedPartial(S, reg, t) ==
    IF t.err \notin {"", "ValueError"}
    THEN [S |-> S, flag |-> FALSE, err |-> t.err, caught |-> FALSE]
    ELSE EagerDone(EagerLoop(S, reg, t.order))

\* run_eager_nodes, lines 503-512: t is the outcome of _topological_sort
EagerSorted(S, reg, t) ==
    IF t.err = "ValueError"
    THEN [S |-> S, flag |-> FALSE, err |-> "", caught |-> TRUE]
    ELSE IF t.err # ""
    THEN [S |-> S, flag |-> FALSE, err |-> t.err, caught |-> FALSE]
    ELSE EagerDone(EagerLoop(S, reg, t.order))

\* run_eager_nodes without the eager_executed test of lines 497-499
RunEagerNodesAgain(S, reg, flag) ==
    EagerSorted(S, reg, TopologicalSort(S.h, reg))

\* DAG.run_eager_nodes: [S, flag, err, caught].  A ValueError is caught and the
\* flag stays as it was; any other exception propagates.
RunEagerNodes(S, reg, flag) ==
    IF flag THEN [S |-> S, flag |-> flag, err |-> "", caught |-> FALSE]
    ELSE EagerSorted(S, reg, TopologicalSort(S.h, reg))

\* DAG.get_node_value
GetNodeValue(S, reg, node_name) ==
    IF ~RegHas(reg, node_name) THEN Ret(S, None, "ValueError")
    ELSE GetValue(S, RegGet(reg, node_name))

RECURSIVE InsertSorted(_, _)
InsertSorted(s, e) ==
    IF s = <<>> THEN <<e>>
    ELSE IF NameLess(e.name, Head(s).name) THEN <<e>> \o s
    ELSE <<Head(s)>> \o InsertSorted(Tail(s), e)

RECURSIVE SortedItems(_)
\* sorted(self.registry.nodes.items())
SortedItems(reg) ==
    IF reg = <<>> THEN <<>>
    ELSE InsertSorted(SortedItems(SubSeq(reg, 1, Len(reg) - 1)), reg[Len(reg)])

RECURSIVE PrintLoop(_, _)
\* the loop of _print_state, after node.get_value() returned g
PrintNext(g, rest) ==
    IF g.err # "" THEN g ELSE PrintLoop(g.S, rest)

\* DAG._print_state: node.get_value() if node.is_computed else "N/A"
PrintLoop(S, items) ==
    IF items = <<>> THEN Ret(S, None, "")
    ELSE IF S.h[Head(items).obj].is_computed
    THEN PrintNext(GetValue(S, Head(items).obj), Tail(items))
    ELSE PrintLoop(S, Tail(items))

\* execute, lines 561-563: p is the outcome of _print_state
ExecutePrinted(p, flag, val) ==
    [S |-> p.S, flag |-> flag,
     val |-> IF p.err # "" THEN None ELSE val, err |-> p.err]

\* execute, lines 558-561: g is the return of get_node_value
ExecuteGot(g, reg, flag) ==
    IF g.err # ""
    THEN [S |-> g.S, flag |-> flag, val |-> None, err |-> g.err]
    ELSE ExecutePrinted(PrintLoop(g.S, SortedItems(reg)), flag, g.val)

\* execute, lines 555-558: e is the outcome of run_eager_nodes
ExecuteEager(e, reg, target_node) ==
    IF e.err # ""
    THEN [S |-> e.S, flag |-> e.flag, val |-> None, err |-> e.err]
    ELSE ExecuteGot(GetNodeValue(e.S, reg, target_node), reg, e.flag)

\* execute with the target looked up only after the eager pass
ExecuteDagLate(S, reg, flag, target_node) ==
    ExecuteEager(RunEagerNodes(S, reg, flag), reg, target_node)

\* DAG.execute: [S, flag, val, err]
ExecuteDag(S, reg, flag, target_node) ==
    IF ~RegHas(reg, target_node)
    THEN [S |-> S, flag |-> flag, val |-> None, err |-> "ValueError"]
    ELSE ExecuteEager(RunEagerNodes(S, reg, flag), reg, target_node)

----------------------------------------------------------------------------
(* DAGRegistry: node, depends_on, input.  R is the registry with its heap:  *)
(* [objs, nodes, input_nodes]; each operator gives the registry afterwards  *)
(* and the node it returns.                                                 *)

Made(R, name, func, deps, mode, can_set) ==
    [R |-> [R EXCEPT !.objs = Construct(@, name, func, deps, mode, can_set),
                     !.nodes = RegPut(@, name, Len(R.objs) + 1)],
     ret |-> Len(R.objs) + 1]

\* @dag.node(name=..., dependencies=deps, mode=mode)(func)() for EAGER and
\* LAZY: the wrapper's regular branch.  An existing name returns its node.
RegisterNode(R, name, deps, mode, can_set, func) ==
    IF RegHas(R.nodes, name)
    THEN [R |-> R, ret |-> RegGet(R.nodes, name)]
    ELSE Made(R, name, func, deps, mode, can_set)

\* @dag.node(name=..., mode=CACHED)(func)(dt): the wrapper's CACHED branch;
\* func(dt) returns k
RegisterCached(R, name, dt, can_set, k) ==
    LET unique_name == IF dt # <<>> THEN DatedName(name, dt) ELSE name
    IN  IF RegHas(R.nodes, unique_name)
        THEN [R |-> R, ret |-> RegGet(R.nodes, unique_name)]
        ELSE Made(R, unique_name, LoadFn(DatedName(name, dt), k), <<>>,
                  CACHED, can_set)

\* @dag.depends_on(*deps, mode=mode)(func): always builds a node and installs
\* it under func.__name__.  Every dependency is a TaskNode the registry made,
\* so its name is a key of nodes already.
RegisterDependsOn(R, name, deps, mode, can_set, func) ==
    Made(R, name, func, deps, mode, can_set)

\* self.input_nodes[name][dt] = node
InputPut(tbl, name, dt, obj) ==
    IF \E i \in 1..Len(tbl) : tbl[i].name = name /\ tbl[i].dt = dt
    THEN [i \in 1..Len(tbl) |->
            IF tbl[i].name = name /\ tbl[i].dt = dt
            THEN [name |-> name, dt |-> dt, obj |-> obj] ELSE tbl[i]]
    ELSE Append(tbl, [name |-> name, dt |-> dt, obj |-> obj])

\* DAGRegistry.input(name, dt, value)
RegisterInput(R, name, dt, value) ==
    LET node_name == DatedName(name, dt)
        id == Len(R.objs) + 1
        h1 == Construct(R.objs, node_name, InputFn, <<>>, EAGER, TRUE)
    IN  [R |-> [objs |-> IF value # None THEN SetValueNode(h1, id, value) ELSE h1,
                nodes |-> RegPut(R.nodes, node_name, id),
                input_nodes |-> InputPut(R.input_nodes, name, dt, id)],
         ret |-> id]

\* DAGRegistry.get_input(name, dt): the node, or None
GetInput(tbl, name, dt) ==
    IF \E i \in 1..Len(tbl) : tbl[i].name = name /\ tbl[i].dt = dt
    THEN tbl[CHOOSE i \in 1..Len(tbl) :
                tbl[i].name = name /\ tbl[i].dt = dt].obj
    ELSE None

EmptyRegistry == [objs |-> <<>>, nodes |-> <<>>, input_nodes |-> <<>>]

----------------------------------------------------------------------------
(* Bounds and the inputs the actions draw from *)

MaxObjs == 3
MaxScopes == 2
MaxDeps == 2

Letters == <<"a", "b", "c", "d", "e", "f">>
NameAt(i) == <<Letters[i]>>
Date1 == <<"1">>
Date2 == <<"2">>
Unknown == <<"x">>
SetVals == {1, 2}
Modes == {EAGER, LAZY}

Objs == 1..Len(objs)

\* the value the next override pushes: one value per nesting depth, so that
\* the entries of a stack differ
OverrideVal == 5 + Len(scopes)

\* the functions of the graphs below: a constant for a source node, an
\* order-sensitive combination of the dependency values otherwise
SourceFn == Fn("const", 3)
DerivedFn == Fn("horner", 2)

\* the ways to register the first node: an input with or without a value,
\* an EAGER or LAZY source, a CACHED node
Sources(R, i) ==
    {RegisterInput(R, NameAt(i), Date1, v).R : v \in {1, None}}
    \cup {RegisterNode(R, NameAt(i), <<>>, m, FALSE, SourceFn).R : m \in Modes}
    \cup {RegisterCached(R, NameAt(i), Date1, FALSE, 4).R}

\* the dependency list of the i-th node: its predecessor, or its two
\* predecessors
DerivedDeps(i) == IF i >= 3 THEN <<i - 2, i - 1>> ELSE <<i - 1>>

Derived(R, i) ==
    {RegisterDependsOn(R, NameAt(i), DerivedDeps(i), m, FALSE, DerivedFn).R :
        m \in Modes}

RECURSIVE Graphs(_)
\* the registries of i nodes built by these registration calls
Graphs(i) ==
    IF i = 0 THEN {EmptyRegistry}
    ELSE UNION {IF i = 1 THEN Sources(R, i) ELSE Derived(R, i) : R \in Graphs(i - 1)}

----------------------------------------------------------------------------
(* States *)

Now == EvalState(objs, cached_values)

Registry == [objs |-> objs, nodes |-> nodes, input_nodes |-> input_nodes]

\* No node has been computed, set after construction, overridden or reset, and
\* no eager pass has run: the state of a registry and executor that have only
\* been built.
Pristine ==
    /\ ~eager_executed
    /\ scopes = <<>>
    /\ cached_values = <<>>
    /\ \A o \in Objs :
        /\ objs[o].override_stack = <<>>
        /\ \/ ~objs[o].is_computed /\ objs[o].is_dirty /\ objs[o].result = None
           \/ /\ objs[o].can_set /\ objs[o].func = InputFn
              /\ objs[o].is_computed /\ ~objs[o].is_dirty /\ objs[o].result # None

----------------------------------------------------------------------------
(* Calls on nodes *)

\* node.get_value()
GetValueOp(o) ==
    \E g \in {GetValue(Now, o)} :
        /\ objs' = g.S.h
        /\ cached_values' = g.S.cv
        /\ UNCHANGED <<nodes, input_nodes, eager_executed, scopes>>

\* node.compute(force)
ComputeOp(o, force) ==
    \E c \in {Compute(Now, o, force)} :
        /\ objs' = c.S.h
        /\ cached_values' = c.S.cv
        /\ UNCHANGED <<nodes, input_nodes, eager_executed, scopes>>

\* what set_value raises: lines 126-127
SetValueErr(h, o) == IF ~h[o].can_set THEN "ValueError" ELSE ""

\* set_value without the can_set check
SetValueUnchecked(h, o, v) == SetValueNode(h, o, v)

\* TaskNode.set_value: ValueError and nothing else on a node that is not
\* settable
SetValue(h, o, v) == IF ~h[o].can_set THEN h ELSE SetValueNode(h, o, v)

\* node.set_value(v)
SetValueOp(o, v) ==
    /\ objs' = SetValue(objs, o, v)
    /\ UNCHANGED <<nodes, input_nodes, cached_values, eager_executed, scopes>>

\* with node.override(w): -- entering the block.  The with blocks open at one
\* time are on one node (re-entrant overrides of that node).
OverrideEnter(o, w) ==
    /\ Len(scopes) < MaxScopes
    /\ IF scopes = <<>> THEN TRUE ELSE o = scopes[1]
    /\ objs' = OverrideEnterNode(objs, o, w)
    /\ scopes' = Append(scopes, o)
    /\ UNCHANGED <<nodes, input_nodes, cached_values, eager_executed>>

\* OverrideContext.__exit__: list.pop() on an empty stack raises IndexError
\* before mark_dependents_dirty is reached
OverrideExitHeap(h, o) ==
    IF h[o].override_stack = <<>> THEN h ELSE OverrideExitNode(h, o)

\* leaving the innermost with block, normally or by an exception
OverrideExit ==
    /\ scopes # <<>>
    /\ objs' = OverrideExitHeap(objs, scopes[Len(scopes)])
    /\ scopes' = SubSeq(scopes, 1, Len(scopes) - 1)
    /\ UNCHANGED <<nodes, input_nodes, cached_values, eager_executed>>

\* node.mark_dirty()
MarkDirtyOp(o) ==
    /\ objs' = MarkDirty(objs, o)
    /\ UNCHANGED <<nodes, input_nodes, cached_values, eager_executed, scopes>>

\* node.reset()
ResetNodeOp(o) ==
    /\ objs' = ResetNode(objs, o)
    /\ UNCHANGED <<nodes, input_nodes, cached_values, eager_executed, scopes>>

----------------------------------------------------------------------------
(* Calls on the registry and the executor *)

\* dag.reset()
RegistryReset ==
    /\ objs' = RegistryResetHeap(objs, nodes)
    /\ cached_values' = <<>>
    /\ UNCHANGED <<nodes, input_nodes, eager_executed, scopes>>

\* graph.reset()
DagReset ==
    /\ objs' = RegistryResetHeap(objs, nodes)
    /\ cached_values' = <<>>
    /\ eager_executed' = FALSE
    /\ UNCHANGED <<nodes, input_nodes, scopes>>

\* graph.run_eager_nodes()
RunEagerOp ==
    \E e \in {RunEagerNodes(Now, nodes, eager_executed)} :
        /\ objs' = e.S.h
        /\ cached_values' = e.S.cv
        /\ eager_executed' = e.flag
        /\ UNCHANGED <<nodes, input_nodes, scopes>>

\* graph.get_node_value(name)
GetNodeValueOp(name) ==
    \E g \in {GetNodeValue(Now, nodes, name)} :
        /\ objs' = g.S.h
        /\ cached_values' = g.S.cv
        /\ UNCHANGED <<nodes, input_nodes, eager_executed, scopes>>

\* graph.execute(name)
Execute(name) ==
    \E x \in {ExecuteDag(Now, nodes, eager_executed, name)} :
        /\ objs' = x.S.h
        /\ cached_values' = x.S.cv
        /\ eager_executed' = x.flag
        /\ UNCHANGED <<nodes, input_nodes, scopes>>

CallNames == Range(RegNames(nodes)) \cup {Unknown}

----------------------------------------------------------------------------
(* Registration calls *)

Install(R) ==
    /\ objs' = R.objs
    /\ nodes' = R.nodes
    /\ input_nodes' = R.input_nodes
    /\ UNCHANGED <<cached_values, eager_executed, scopes>>

BaseNames == {NameAt(i) : i \in 1..MaxObjs}

\* dependency lists over the existing objects, repeats included
DepLists == UNION {[1..k -> Objs] : k \in 0..MaxDeps}

FnFor(deps) == IF deps = <<>> THEN SourceFn ELSE DerivedFn

NodeCall(name, deps, mode) ==
    /\ RegHas(nodes, name) \/ Len(objs) < MaxObjs
    /\ Install(RegisterNode(Registry, name, deps, mode, FALSE, FnFor(deps)).R)

CachedCall(name, dt) ==
    /\ RegHas(nodes, DatedName(name, dt)) \/ Len(objs) < MaxObjs
    /\ Install(RegisterCached(Registry, name, dt, FALSE, 4).R)

DependsOnCall(name, deps, mode) ==
    /\ Len(objs) < MaxObjs
    /\ deps # <<>>
    /\ Install(RegisterDependsOn(Registry, name, deps, mode, FALSE, FnFor(deps)).R)

InputCall(name, dt, value) ==
    /\ Len(objs) < MaxObjs
    /\ Install(RegisterInput(Registry, name, dt, value).R)

----------------------------------------------------------------------------
(* Spec: a registry built by registration calls, its nodes then used *)

Start(R) ==
    /\ objs = R.objs
    /\ nodes = R.nodes
    /\ input_nodes = R.input_nodes
    /\ cached_values = <<>>
    /\ eager_executed = FALSE
    /\ scopes = <<>>

Init == \E R \in Graphs(MaxObjs) : Start(R)

Next ==
    \/ \E o \in Objs : GetValueOp(o)
    \/ \E o \in Objs, force \in BOOLEAN : ComputeOp(o, force)
    \/ \E o \in Objs, v \in SetVals : SetValueOp(o, v)
    \/ \E o \in Objs : OverrideEnter(o, OverrideVal)
    \/ OverrideExit
    \/ \E o \in Objs : MarkDirtyOp(o)
    \/ \E o \in Objs : ResetNodeOp(o)

Spec == Init /\ [][Next]_vars

----------------------------------------------------------------------------
(* SpecDag: the same registries, used through the executor *)

NextDag ==
    \/ \E name \in CallNames : Execute(name)
    \/ RunEagerOp
    \/ \E name \in CallNames : GetNodeValueOp(name)
    \/ DagReset
    \/ RegistryReset
    \/ \E o \in Objs, v \in SetVals : SetValueOp(o, v)
    \/ \E o \in Objs : OverrideEnter(o, OverrideVal)
    \/ OverrideExit

SpecDag == Init /\ [][NextDag]_vars

----------------------------------------------------------------------------
(* SpecReg: the registry under construction, and executed *)

InitReg == Start(EmptyRegistry)

NextReg ==
    \/ \E name \in BaseNames, deps \in DepLists, mode \in Modes :
            NodeCall(name, deps, mode)
    \/ \E name \in BaseNames : CachedCall(name, Date1)
    \/ \E name \in BaseNames, deps \in DepLists, mode \in Modes :
            DependsOnCall(name, deps, mode)
    \/ \E name \in BaseNames, v \in {1, None} : InputCall(name, Date1, v)
    \/ RunEagerOp
    \/ \E name \in CallNames : Execute(name)

SpecReg == InitReg /\ [][NextReg]_vars

----------------------------------------------------------------------------
(* SpecEx1: Example 1 of the source, basic eager/lazy computation *)

n_e1 == <<"e", "1">>
n_e2 == <<"e", "2">>
n_e3 == <<"e", "3">>
n_e4 == <<"e", "4">>
n_l1 == <<"l", "1">>
n_l2 == <<"l", "2">>
n_l3 == <<"l", "3">>
n_l4 == <<"l", "4">>

\* the registration calls of lines 598-648, in the order in which they
\* create nodes: e1, e2, l1, l2, e3, l3, e4, l4
Example1 ==
    LET r1 == RegisterNode(EmptyRegistry, n_e1, <<>>, EAGER, FALSE, Fn("const", 10))
        r2 == RegisterDependsOn(r1.R, n_e2, <<r1.ret>>, EAGER, FALSE, Fn("sum", 1))
        r3 == RegisterNode(r2.R, n_l1, <<>>, LAZY, FALSE, Fn("const", 100))
        r4 == RegisterDependsOn(r3.R, n_l2, <<r3.ret>>, LAZY, FALSE, Fn("sum", 10))
        r5 == RegisterDependsOn(r4.R, n_e3, <<r3.ret>>, EAGER, FALSE, Fn("prod", 2))
        r6 == RegisterDependsOn(r5.R, n_l3, <<r1.ret>>, LAZY, FALSE, Fn("prod", 3))
        r7 == RegisterDependsOn(r6.R, n_e4, <<r2.ret, r5.ret>>, EAGER, FALSE,
                                Fn("sum", 0))
        r8 == RegisterNode(r7.R, n_l4, <<r4.ret, r6.ret, r7.ret>>, LAZY, FALSE,
                           Fn("sum", 0))
    IN  r8.R

InitEx1 == Start(Example1)

NextEx1 ==
    \/ \E name \in CallNames : Execute(name)
    \/ \E name \in CallNames : GetNodeValueOp(name)
    \/ \E o \in Objs : MarkDirtyOp(o)
    \/ DagReset

SpecEx1 == InitEx1 /\ [][NextEx1]_vars

----------------------------------------------------------------------------
(* SpecEx2: Example 2 of the source, reactive updates with inputs.          *)
(* spot_price is in units, fx_rate in hundredths, usd_price in hundredths   *)
(* of a unit: 100.0 * 0.95 = 95.0 is 100 * 95 = 9500.                       *)

n_spot == <<"s", "p", "o", "t", "_", "p", "r", "i", "c", "e">>
n_fx == <<"f", "x", "_", "r", "a", "t", "e">>
n_usd == <<"u", "s", "d", "_", "p", "r", "i", "c", "e">>
dt_ex2 == <<"2", "0", "2", "5", "-", "0", "5", "-", "1", "0">>

\* lines 682-690
Example2 ==
    LET r1 == RegisterInput(EmptyRegistry, n_spot, dt_ex2, 100)
        r2 == RegisterInput(r1.R, n_fx, dt_ex2, 95)
        r3 == RegisterDependsOn(r2.R, n_usd, <<r1.ret, r2.ret>>, EAGER, FALSE,
                                Fn("prod", 1))
    IN  r3.R

spot == RegGet(nodes, DatedName(n_spot, dt_ex2))
fx == RegGet(nodes, DatedName(n_fx, dt_ex2))
usd == RegGet(nodes, n_usd)

InitEx2 == Start(Example2)

NextEx2 ==
    \/ \E name \in CallNames : Execute(name)
    \/ \E v \in {100, 110} : SetValueOp(spot, v)
    \/ \E v \in {95, 90} : SetValueOp(fx, v)
    \/ OverrideEnter(fx, 100)
    \/ OverrideExit
    \/ DagReset

SpecEx2 == InitEx2 /\ [][NextEx2]_vars

----------------------------------------------------------------------------
(* SpecRaise: registries in which node functions may raise ValueError, used
   through the executor *)

\* a node function that raises ValueError
RaiseFn == Fn("raise", 0)

\* the dependency lists the i-th node is registered with
RaiseDeps(i) == IF i = 1 THEN {<<>>} ELSE {<<>>, DerivedDeps(i)}

\* dag.node(name, mode=m, dependencies=deps)(func)
RaiseNodes(R, i) ==
    {RegisterNode(R, NameAt(i), deps, m, FALSE, f).R :
        deps \in RaiseDeps(i), m \in Modes, f \in {SourceFn, DerivedFn, RaiseFn}}

RECURSIVE GraphsRaise(_)
GraphsRaise(i) ==
    IF i = 0 THEN {EmptyRegistry}
    ELSE UNION {RaiseNodes(R, i) : R \in GraphsRaise(i - 1)}

InitRaise ==
    \E R \in GraphsRaise(MaxObjs) :
        /\ \A o \in 1..Len(R.objs) :
            R.objs[o].func = RaiseFn \/ R.objs[o].func = FnFor(R.objs[o].dependencies)
        /\ Start(R)

NextRaise ==
    \/ \E name \in CallNames : Execute(name)
    \/ RunEagerOp
    \/ \E name \in CallNames : GetNodeValueOp(name)
    \/ DagReset

SpecRaise == InitRaise /\ [][NextRaise]_vars

----------------------------------------------------------------------------
(* Notions the properties below are stated with *)

Names == {nodes[i].name : i \in 1..Len(nodes)}

RECURSIVE DependentsClosure(_, _)
DependentsClosure(h, set) ==
    LET more == set \cup UNION {Range(h[d].dependents) : d \in set}
    IN  IF more = set THEN set ELSE DependentsClosure(h, more)

\* the nodes reached from n along dependents links, n itself not included
\* unless it is its own dependent
TransitiveDependents(h, n) == DependentsClosure(h, Range(h[n].dependents))

\* the values get_value() gives for the dependencies of n are all ready
DepsReady(S, n) ==
    LET dv == DepValues(S, S.h[n].dependencies, <<>>)
    IN  dv.err = "" /\ \A k \in 1..Len(dv.vals) : dv.vals[k] # None

\* n's function is called during the evaluation that ended in S
Invoked(S, n) == Contains(S.inv, n)

\* a dependency edge between registered names: the node registered as b has a
\* dependency whose name is a
DepEdge(a, b) ==
    \E i \in 1..Len(nodes) :
        /\ nodes[i].name = b
        /\ \E k \in 1..Len(objs[nodes[i].obj].dependencies) :
                objs[objs[nodes[i].obj].dependencies[k]].name = a

RECURSIVE PathsFrom(_)
\* the pairs of names joined by a path of one or more dependency edges
PathsFrom(pairs) ==
    LET more == pairs \cup {<<x[1][1], x[2][2]>> :
                                x \in {y \in pairs \X pairs : y[1][2] = y[2][1]}}
    IN  IF more = pairs THEN pairs ELSE PathsFrom(more)

HasCycle ==
    \E a \in Names :
        <<a, a>> \in PathsFrom({e \in Names \X Names : DepEdge(e[1], e[2])})

Position(s, x) == CHOOSE i \in 1..Len(s) : s[i] = x

RECURSIVE RefVal(_)
\* The reference evaluator: a set input has its value, any other node its
\* function applied to the reference values of its dependencies, in
\* dependency-list order; not ready if one of them is not ready.
RefVal(o) ==
    IF objs[o].func = InputFn THEN objs[o].result
    ELSE LET vals == [k \in 1..Len(objs[o].dependencies) |->
                        RefVal(objs[o].dependencies[k])]
         IN  IF \E k \in 1..Len(vals) : vals[k] = None THEN None
             ELSE UserCall(objs[o].func, vals).val

\* every dependency of a registered node is the node registered under its name
Closed ==
    \A i \in 1..Len(nodes) :
        \A k \in 1..Len(objs[nodes[i].obj].dependencies) :
            LET d == objs[nodes[i].obj].dependencies[k]
            IN  RegHas(nodes, objs[d].name) /\ RegGet(nodes, objs[d].name) = d

\* a registry and executor just built, holding an acyclic graph of EAGER and
\* LAZY nodes none of whose values is not ready
FreshAcyclic ==
    /\ Pristine
    /\ nodes # <<>>
    /\ \A i \in 1..Len(nodes) : objs[nodes[i].obj].mode \in {EAGER, LAZY}
    /\ Closed
    /\ ~HasCycle
    /\ \A i \in 1..Len(nodes) : RefVal(nodes[i].obj) # None

\* what a read of fx_rate gives in Example 2
fx_seen ==
    IF objs[fx].override_stack # <<>> THEN OverrideTop(objs[fx].override_stack)
    ELSE objs[fx].result

\* The calls made inside a with block on node o, for the override properties.
ScopeVals == {7}

QuietBodies ==
    {[op |-> "pass", node |-> 0, v |-> 0]}
    \cup {[op |-> "read", node |-> n, v |-> 0] : n \in Objs}
    \cup {[op |-> "nested", node |-> 0, v |-> 9]}

AllBodies == QuietBodies \cup {[op |-> "set", node |-> 0, v |-> v] : v \in SetVals}

\* pass (or raise); some_node.get_value(); with o.override(v): o.get_value();
\* o.set_value(v)
ScopeBody(S, o, b) ==
    CASE b.op = "pass" -> S
      [] b.op = "read" -> GetValue(S, b.node).S
      [] b.op = "nested" ->
            LET g == GetValue(EvalState(OverrideEnterNode(S.h, o, b.v), S.cv), o)
            IN  EvalState(OverrideExitHeap(g.S.h, o), g.S.cv)
      [] b.op = "set" -> EvalState(SetValue(S.h, o, b.v), S.cv)

\* the state after: with o.override(w): b
AfterScope(o, w, b) ==
    LET S2 == ScopeBody(EvalState(OverrideEnterNode(objs, o, w), cached_values), o, b)
    IN  EvalState(OverrideExitHeap(S2.h, o), S2.cv)

\* after the block, o.get_value() gives what it gave before the block, and
\* every transitive dependent of o is dirty
Restored(o, w, b) ==
    LET after == AfterScope(o, w, b)
    IN  /\ GetValue(after, o).val = GetValue(Now, o).val
        /\ \A d \in TransitiveDependents(objs, o) : after.h[d].is_dirty

----------------------------------------------------------------------------
(* Properties *)

\* C1: reactive update through execute.  In Example 2, once a first execute
\* has produced usd_price and no override is active, execute("usd_price")
\* returns spot_price * fx_rate for the values the inputs hold now, also after
\* set_value on an input.
ReactiveUpdate ==
    (eager_executed /\ objs[usd].is_computed /\ scopes = <<>>
        /\ objs[fx].override_stack = <<>>)
    => ExecuteDag(Now, nodes, eager_executed, n_usd).val
            = objs[spot].result * objs[fx].result

\* C2: override seen through execute.  In Example 2, once a first execute has
\* produced usd_price from the inputs' present values, execute("usd_price")
\* returns spot_price times what fx_rate reads as: the overriding value while
\* an override is active on fx_rate, its own value after the scope has ended.
OverrideThroughExecute ==
    (eager_executed /\ objs[usd].is_computed
        /\ objs[usd].result = objs[spot].result * objs[fx].result)
    => ExecuteDag(Now, nodes, eager_executed, n_usd).val
            = objs[spot].result * fx_seen

\* C3: memoization.  For every node, of two get_value() calls in succession
\* the second returns what the first returned and does not call the node's
\* function.
Memoization ==
    \A o \in Objs :
        LET g1 == GetValue(Now, o)
            g2 == GetValue(EvalState(g1.S.h, g1.S.cv), o)
        IN  /\ g1.err = "" /\ g2.err = ""
            /\ g2.val = g1.val
            /\ ~Invoked(g2.S, o)

\* a LAZY node with dependencies that a get_value() has computed: it is clean,
\* and a further get_value() returns its result without a call of a function
MemoizationSeen ==
    \E o \in Objs :
        /\ objs[o].mode = LAZY /\ objs[o].dependencies # <<>>
        /\ objs[o].is_computed /\ ~objs[o].is_dirty /\ objs[o].result # None
        /\ objs[o].override_stack = <<>>
        /\ GetValue(Now, o).val = objs[o].result
        /\ GetValue(Now, o).S.inv = <<>>

\* C4: dirty forces recomputation.  After mark_dirty() on a node o, o and
\* every transitive dependent n of o is dirty, and if n had been computed by its
\* function, has no override and has ready dependencies, the next get_value()
\* on n and the next compute() on n call n's function.  (set_value and
\* override reach the same dependents through mark_dependents_dirty.)
DirtyForcesRecompute ==
    \A o \in Objs :
        \A n \in {o} \cup TransitiveDependents(objs, o) :
            LET S == EvalState(MarkDirty(objs, o), cached_values)
            IN  /\ S.h[n].is_dirty
                /\ (S.h[n].is_computed /\ S.h[n].func # InputFn
                        /\ S.h[n].override_stack = <<>> /\ DepsReady(S, n))
                   => (Invoked(GetValue(S, n).S, n)
                        /\ Invoked(Compute(S, n, FALSE).S, n))

\* C5: override visibility.  Whenever a node's override stack is not empty,
\* get_value() returns the top of the stack, calls no function and changes no
\* node.
OverrideVisibility ==
    \A o \in Objs :
        objs[o].override_stack # <<>> =>
            LET g == GetValue(Now, o)
            IN  /\ g.err = ""
                /\ g.val = objs[o].override_stack[Len(objs[o].override_stack)]
                /\ g.S.inv = <<>>
                /\ g.S.h = objs

\* a dirty LAZY node and a computed node, each under two nested overrides
\* with different values
OverrideVisibilitySeen ==
    /\ \E o \in Objs :
        /\ Len(objs[o].override_stack) = 2
        /\ objs[o].override_stack[1] # objs[o].override_stack[2]
        /\ objs[o].mode = LAZY /\ objs[o].is_dirty /\ objs[o].dependencies # <<>>
        /\ objs[o].is_computed
        /\ objs[o].result # objs[o].override_stack[2]
        /\ GetValue(Now, o).val = objs[o].override_stack[2]
    /\ Len(scopes) = 2

ValidLinearization ==
    LET t == TopologicalSort(objs, nodes)
    IN  t.err = "" =>
            /\ Len(t.order) = Len(nodes)
            /\ Range(t.order) = Names
            /\ \A a \in Names, b \in Names :
                    DepEdge(a, b) => Position(t.order, a) < Position(t.order, b)

\* three registered nodes, one depending on the two others, sorted
ValidLinearizationSeen ==
    LET t == TopologicalSort(objs, nodes)
    IN  /\ t.err = "" /\ Len(t.order) = 3
        /\ \E a \in Names, b \in Names, c \in Names :
                a # b /\ DepEdge(a, c) /\ DepEdge(b, c)
        /\ eager_executed

\* C8: cycle detection is exact.  _topological_sort raises the cycle error
\* if and only if the dependency graph over the registered names has a cycle,
\* and the error names exactly the registered names that are not in the order.
CycleDetectionExact ==
    LET t == TopologicalSort(objs, nodes)
    IN  /\ t.err \in {"", "ValueError"}
        /\ (t.err = "ValueError") <=> HasCycle
        /\ t.err = "ValueError" =>
                /\ t.missing = Names \ Range(t.order)
                /\ t.missing # {}
                /\ \A a \in Names : <<a, a>> \in
                        PathsFrom({e \in Names \X Names : DepEdge(e[1], e[2])})
                    => a \in t.missing

\* a graph with a cycle and a node outside it: the sort fails after it has
\* emitted that node
CycleDetectionSeen ==
    LET t == TopologicalSort(objs, nodes)
    IN  /\ HasCycle /\ t.err = "ValueError"
        /\ t.order # <<>> /\ t.missing # {}
        /\ t.missing # Names

\* C9: the mixed eager/lazy scenario.  On the registry and executor of
\* Example 1 just built, execute("l4") returns 351 and leaves e4 with the
\* result 211, and execute("e4") returns 211; and whenever e4 or l4 is
\* computed, it holds 211 or 351.
Example1Values ==
    /\ Pristine =>
        LET x == ExecuteDag(Now, nodes, eager_executed, n_l4)
        IN  /\ x.err = "" /\ x.val = 351
            /\ x.S.h[RegGet(nodes, n_e4)].result = 211
            /\ ExecuteDag(Now, nodes, eager_executed, n_e4).val = 211
    /\ objs[RegGet(nodes, n_e4)].is_computed
            => objs[RegGet(nodes, n_e4)].result = 211
    /\ objs[RegGet(nodes, n_l4)].is_computed
            => objs[RegGet(nodes, n_l4)].result = 351

\* execute("l4") has run: the eager pass is done, l4 holds 351 and e4 holds 211
Example1ValuesSeen ==
    /\ eager_executed
    /\ objs[RegGet(nodes, n_l4)].is_computed
    /\ objs[RegGet(nodes, n_l4)].result = 351
    /\ objs[RegGet(nodes, n_e4)].result = 211

\* C10: execute agrees with the reference evaluator.  On a registry and
\* executor just built that hold an acyclic graph of EAGER and LAZY nodes with
\* no value not ready, execute(target) returns, for every registered target,
\* the reference value of the target.
ExecuteAgreesWithReference ==
    FreshAcyclic =>
        \A i \in 1..Len(nodes) :
            LET x == ExecuteDag(Now, nodes, eager_executed, nodes[i].name)
            IN  x.err = "" /\ x.val = RefVal(nodes[i].obj)

\* a LAZY target with two dependencies of different values, one of them LAZY
ExecuteAgreesSeen ==
    /\ FreshAcyclic
    /\ \E i \in 1..Len(nodes) :
        LET o == nodes[i].obj
        IN  /\ objs[o].mode = LAZY /\ Len(objs[o].dependencies) = 2
            /\ RefVal(objs[o].dependencies[1]) # RefVal(objs[o].dependencies[2])
            /\ \E k \in 1..2 : objs[objs[o].dependencies[k]].mode = LAZY
            /\ ExecuteDag(Now, nodes, eager_executed, nodes[i].name).val = RefVal(o)

\* C11: the two-level cache.  For a CACHED node whose underlying function
\* has been called and memoized in cached_values, and on which no override is
\* left after the reset: node.reset() followed by get_value(), or by a
\* forced compute(), returns the memoized value and does not call the
\* underlying function again.
TwoLevelCache ==
    \A o \in Objs :
        (objs[o].mode = CACHED /\ objs[o].func.key \in DOMAIN cached_values
            /\ ResetNode(objs, o)[o].override_stack = <<>>)
        => LET S == EvalState(ResetNode(objs, o), cached_values)
               g == GetValue(S, o)
               c == Compute(S, o, TRUE)
           IN  /\ g.err = "" /\ g.val = cached_values[objs[o].func.key]
               /\ g.S.under = <<>>
               /\ c.val = cached_values[objs[o].func.key]
               /\ c.S.under = <<>>
               /\ g.S.cv = cached_values

\* a CACHED node that was computed and then reset: the next get_value() calls
\* load_func, which finds the memoized value
TwoLevelCacheSeen ==
    \E o \in Objs :
        /\ objs[o].mode = CACHED /\ objs[o].func.key \in DOMAIN cached_values
        /\ ~objs[o].is_computed /\ objs[o].is_dirty
        /\ objs[o].override_stack = <<>>
        /\ Invoked(GetValue(Now, o).S, o)
        /\ GetValue(Now, o).S.under = <<>>
        /\ GetValue(Now, o).val = cached_values[objs[o].func.key]

\* what C12 asks of compute(force) on node o in the current state
ShortCircuits(o, force) ==
    LET dv == DepValues(Now, objs[o].dependencies, <<>>)
        c == Compute(Now, o, force)
    IN  (\E k \in 1..Len(dv.vals) : dv.vals[k] = None)
        => /\ c.err = "" /\ c.val = None
           /\ ~Invoked(c.S, o)
           /\ c.S.h[o].result = objs[o].result
           /\ c.S.h[o].is_computed = objs[o].is_computed
           /\ c.S.h[o].is_dirty = objs[o].is_dirty
           /\ c.S.h[o].override_stack = objs[o].override_stack

\* C12 as stated: if get_value() of at least one dependency gives None,
\* compute(), forced or not, returns None, does not call the node's function
\* and leaves the node's result, is_computed, is_dirty and override stack as
\* they were.
NotReadyShortCircuitAlways ==
    \A o \in Objs, force \in BOOLEAN : ShortCircuits(o, force)

\* C12: the not-ready short-circuit in compute, for a compute() that gets past
\* the memoization branch of line 74 (forced, or the node is dirty or not yet
\* computed): if get_value() of at least one dependency gives None, compute()
\* returns None, does not call the node's function and leaves the node's
\* result, is_computed, is_dirty and override stack as they were.
NotReadyShortCircuit ==
    \A o \in Objs, force \in BOOLEAN :
        (force \/ objs[o].is_dirty \/ ~objs[o].is_computed)
        => ShortCircuits(o, force)

\* a node with two dependencies, the first ready and the second not, after a
\* compute() that gave up: the node is still uncomputed and without a result
NotReadyShortCircuitSeen ==
    \E o \in Objs :
        /\ Len(objs[o].dependencies) = 2
        /\ GetValue(Now, objs[o].dependencies[1]).val # None
        /\ GetValue(Now, objs[o].dependencies[2]).val = None
        /\ ~objs[o].is_computed /\ objs[o].result = None
        /\ Compute(Now, o, TRUE).val = None
        /\ objs[objs[o].dependencies[1]].mode = LAZY
        /\ objs[objs[o].dependencies[1]].is_computed
        /\ objs[objs[o].dependencies[2]].is_dirty

\* an input created without a value and never given one: get_value() on it
\* is None before and after any eager pass
UnsetInput(d) ==
    /\ objs[d].func = InputFn /\ objs[d].dependencies = <<>>
    /\ objs[d].result = None /\ objs[d].override_stack = <<>>

\* the nodes after d on a path from d to t
PathNodes(d, t) ==
    {p \in TransitiveDependents(objs, d) :
        p = t \/ t \in TransitiveDependents(objs, p)}

\* C13: not-ready propagates end to end.  If a transitive dependency of the
\* target is an input without a value (and no node on the way to the target
\* is overridden), execute(target) raises nothing, returns None and calls the
\* function of no node on a path from that input to the target.
NotReadyPropagates ==
    \A i \in 1..Len(nodes), d \in Objs :
        LET t == nodes[i].obj
            e == ExecuteDag(Now, nodes, eager_executed, nodes[i].name)
        IN  (/\ UnsetInput(d)
             /\ t \in TransitiveDependents(objs, d)
             /\ \A p \in PathNodes(d, t) : objs[p].override_stack = <<>>)
            => /\ e.err = "" /\ e.val = None
               /\ \A p \in PathNodes(d, t) : ~Invoked(e.S, p)

\* C14: set_value on a node that is not settable raises ValueError and
\* changes nothing: the node's result, is_computed, is_dirty and override
\* stack and the dirty flags of its dependents (the whole heap) stay as they
\* were.
NotSettableRejected ==
    \A o \in Objs, v \in SetVals :
        ~objs[o].can_set
        => /\ SetValueErr(objs, o) = "ValueError"
           /\ SetValue(objs, o, v) = objs

\* a computed, clean, non-settable node with a clean computed dependent, which
\* a set_value that went through would have changed, met after a set_value
\* on it
NotSettableRejectedSeen ==
    \E o \in Objs, d \in Objs :
        /\ ~objs[o].can_set /\ objs[o].is_computed /\ ~objs[o].is_dirty
        /\ d \in Range(objs[o].dependents)
        /\ objs[d].is_computed /\ ~objs[d].is_dirty
        /\ objs[o].result \notin SetVals
        /\ SetValue(objs, o, 1) = objs

\* C15: the effect of set_value(v) on a settable node N: afterwards
\* N.result = v, N.is_computed, not N.is_dirty, and every node in the
\* transitive dependents closure of N is dirty.
SetValueEffect ==
    \A o \in Objs, v \in SetVals :
        objs[o].can_set
        => LET h == SetValue(objs, o, v)
           IN  /\ SetValueErr(objs, o) = ""
               /\ h[o].result = v /\ h[o].is_computed /\ ~h[o].is_dirty
               /\ \A d \in TransitiveDependents(objs, o) : h[d].is_dirty

\* a settable node with a clean computed dependent two edges away that is not
\* also a direct dependent, which set_value makes dirty
SetValueEffectSeen ==
    \E o \in Objs, d \in Objs :
        /\ objs[o].can_set
        /\ d \in TransitiveDependents(objs, o)
        /\ d \notin Range(objs[o].dependents)
        /\ objs[d].is_computed /\ ~objs[d].is_dirty
        /\ SetValue(objs, o, 2)[d].is_dirty
        /\ SetValue(objs, o, 2)[o].result = 2

\* C16: stable name resolution.  In every step (a node accessor call, a
\* depends_on, an input, an eager pass, an execute) each name that is
\* registered before the step is registered after it and resolves to the same
\* node object.
StableNameResolution ==
    [][\A name \in Names :
            /\ RegHas(nodes', name)
            /\ RegGet(nodes', name) = RegGet(nodes, name)]_vars

\* C17: input(name, key) is idempotent per (name, key).  For a pair that
\* already has an input node, another input call (with or without a value)
\* returns that node, and get_input(name, key) gives that node afterwards, so
\* the nodes wired to it see what is set through the returned node.
InputIdempotent ==
    \A i \in 1..Len(input_nodes), v \in {1, 2, None} :
        LET e == input_nodes[i]
            r == RegisterInput(Registry, e.name, e.dt, v)
        IN  /\ GetInput(input_nodes, e.name, e.dt) = e.obj
            /\ r.ret = e.obj
            /\ GetInput(r.R.input_nodes, e.name, e.dt) = e.obj
            /\ \A d \in Range(objs[e.obj].dependents) :
                    r.ret \in Range(r.R.objs[d].dependencies)

\* C18: node.reset() restores the initial state from any state: computed or
\* not, overridden or not, after reset() the node is not computed, is dirty,
\* has an empty override stack and has no result.
ResetRestoresInitial ==
    \A o \in Objs :
        LET n == ResetNode(objs, o)[o]
        IN  /\ ~n.is_computed /\ n.is_dirty
            /\ n.override_stack = <<>>
            /\ n.result = None

\* C19: the registry's reset() clears values uniformly.  After it (with
\* cached_values emptied) every registered node has no result, and
\* get_value() on a registered input node, set before or not, returns None.
RegistryResetClears ==
    \A i \in 1..Len(nodes) :
        LET o == nodes[i].obj
            h == RegistryResetHeap(objs, nodes)
        IN  /\ h[o].result = None
            /\ objs[o].func = InputFn
               => GetValue(EvalState(h, <<>>), o).val = None

\* C20: run_eager is idempotent per executor.  Once an eager pass has
\* completed (eager_executed is set), run_eager_nodes calls no function,
\* changes no node and no cached value and leaves the flag set, and execute
\* is get_node_value and the state print alone, until the executor's reset.
EagerPassOnce ==
    eager_executed
    => LET e == RunEagerNodes(Now, nodes, eager_executed)
       IN  /\ e.S = Now /\ e.S.inv = <<>>
           /\ e.flag /\ e.err = "" /\ ~e.caught
           /\ \A name \in Names :
                ExecuteDag(Now, nodes, eager_executed, name)
                    = ExecuteGot(GetNodeValue(Now, nodes, name), nodes, TRUE)

\* after a completed pass, a registered EAGER node that is not computed and
\* that a pass would compute (the registry was reset, the executor was not)
EagerPassOnceSeen ==
    /\ eager_executed
    /\ \E i \in 1..Len(nodes) :
        /\ objs[nodes[i].obj].mode = EAGER
        /\ ~objs[nodes[i].obj].is_computed
        /\ objs[nodes[i].obj].dependencies # <<>>
        /\ Invoked(Compute(Now, nodes[i].obj, FALSE).S, nodes[i].obj)
        /\ ~Invoked(RunEagerNodes(Now, nodes, eager_executed).S, nodes[i].obj)

\* C21: execute and get_node_value on a name that is not registered raise
\* ValueError before anything else happens: no eager pass, the eager flag as
\* it was, no node and no cached value changed, no function called.
UnknownNodeFirst ==
    \A name \in CallNames :
        ~RegHas(nodes, name)
        => LET x == ExecuteDag(Now, nodes, eager_executed, name)
               g == GetNodeValue(Now, nodes, name)
           IN  /\ x.err = "ValueError" /\ x.S = Now
               /\ x.flag = eager_executed
               /\ g.err = "ValueError" /\ g.S = Now

\* before an eager pass, with an EAGER node the pass would compute, execute
\* on the unknown name leaves that node uncomputed
UnknownNodeFirstSeen ==
    /\ ~eager_executed
    /\ ~RegHas(nodes, Unknown)
    /\ \E i \in 1..Len(nodes) :
        /\ objs[nodes[i].obj].mode = EAGER
        /\ Invoked(RunEagerNodes(Now, nodes, eager_executed).S, nodes[i].obj)
        /\ ~ExecuteDag(Now, nodes, eager_executed, Unknown).S.h[nodes[i].obj].is_computed
    /\ \E o \in Objs : objs[o].mode = LAZY /\ objs[o].is_computed

\* C22: a cycle aborts the eager pass.  When the registered graph has a
\* cycle, run_eager_nodes calls no function, changes no node (no EAGER node
\* becomes computed), and returns to its caller without an exception; the
\* ValueError of the sort is caught and the eager flag is not set by the pass.
CycleAbortsPass ==
    HasCycle
    => LET e == RunEagerNodes(Now, nodes, eager_executed)
       IN  /\ e.S = Now /\ e.S.inv = <<>>
           /\ e.err = ""
           /\ e.flag = eager_executed
           /\ ~eager_executed => e.caught

\* a graph with a cycle and, outside the cycle, an EAGER node that is not
\* computed and that a pass over the sorted part would have computed
CycleAbortsPassSeen ==
    /\ HasCycle /\ ~eager_executed
    /\ RunEagerNodes(Now, nodes, eager_executed).caught
    /\ \E i \in 1..Len(nodes) :
        /\ Contains(TopologicalSort(objs, nodes).order, nodes[i].name)
        /\ objs[nodes[i].obj].mode = EAGER
        /\ ~objs[nodes[i].obj].is_computed
        /\ Invoked(Compute(Now, nodes[i].obj, FALSE).S, nodes[i].obj)

\* C23: execute(target) raises ValueError to its caller when the graph has a
\* cycle (as it does when the target is not registered).
ExecuteRaisesOnCycle ==
    /\ \A name \in CallNames :
            ~RegHas(nodes, name)
            => ExecuteDag(Now, nodes, eager_executed, name).err = "ValueError"
    /\ HasCycle
        => \A name \in Names :
                ExecuteDag(Now, nodes, eager_executed, name).err = "ValueError"

\* C24: an EAGER node read before the eager pass.  get_value() on an EAGER
\* node with no active override never calls the node's function, and while
\* the node is not computed (a new node, or a node after a reset) it returns
\* None.
EagerReadNotReady ==
    \A o \in Objs :
        (objs[o].mode = EAGER /\ objs[o].override_stack = <<>>)
        => LET g == GetValue(Now, o)
           IN  /\ g.err = "" /\ g.S = Now
               /\ ~objs[o].is_computed => g.val = None

\* a node that needs no computation: computed and not dirty
Settled(h, o) == h[o].is_computed /\ ~h[o].is_dirty

\* what one executor call that ends in the evaluation state S did: it called
\* no function twice, it called only functions of nodes that were not
\* settled, every node it called is settled afterwards, and every node that
\* was settled still is, with the result it had
OnceIn(S) ==
    /\ \A j, k \in 1..Len(S.inv) : S.inv[j] = S.inv[k] => j = k
    /\ Len(S.inv) <= Len(objs)
    /\ \A k \in 1..Len(S.inv) :
            ~Settled(objs, S.inv[k]) /\ Settled(S.h, S.inv[k])
    /\ \A o \in Objs :
            Settled(objs, o) => Settled(S.h, o) /\ S.h[o].result = objs[o].result

\* C25: at-most-once computation.  Each execute, run_eager_nodes and
\* get_node_value call, from any state, calls each function at most once and
\* only for nodes that are dirty or not computed, leaves the nodes it called
\* computed and not dirty, and leaves every computed, not dirty node as it
\* was.  So in a sequence of such calls with no set_value, override,
\* mark_dirty, forced compute or reset in between, a node whose function was
\* called is never called again, and the calls number at most the nodes.
AtMostOnce ==
    /\ OnceIn(RunEagerNodes(Now, nodes, eager_executed).S)
    /\ \A name \in CallNames :
        /\ OnceIn(ExecuteDag(Now, nodes, eager_executed, name).S)
        /\ OnceIn(GetNodeValue(Now, nodes, name).S)

\* after a completed pass and reads that left every node computed and clean,
\* EAGER and LAZY nodes among them, one more execute calls no function
AtMostOnceSeen ==
    /\ eager_executed
    /\ Len(objs) = MaxObjs
    /\ \A o \in Objs : Settled(objs, o) /\ objs[o].override_stack = <<>>
    /\ \E o \in Objs : objs[o].mode = LAZY /\ objs[o].dependencies # <<>>
    /\ \E o \in Objs : objs[o].mode = EAGER /\ objs[o].dependencies # <<>>
    /\ \A name \in Names :
            ExecuteDag(Now, nodes, eager_executed, name).S.inv = <<>>

\* the values pushed by the two nested scopes of C26
NestVals == {7, 8}

\* C26: overrides nest as a stack.  With override(a) and then override(b)
\* entered on a node, get_value() returns b; after the inner scope exits it
\* returns a; after the outer scope exits it returns what it returned before
\* the two scopes (the node's own value, or the override that was active
\* before), and the stack is as it was: at every moment the most recently
\* pushed override that is not released is the one seen.
OverridesNest ==
    \A o \in Objs, a \in NestVals, b \in NestVals :
        LET h1 == OverrideEnterNode(objs, o, a)
            h2 == OverrideEnterNode(h1, o, b)
            h3 == OverrideExitHeap(h2, o)
            h4 == OverrideExitHeap(h3, o)
        IN  /\ GetValue(EvalState(h1, cached_values), o).val = a
            /\ GetValue(EvalState(h2, cached_values), o).val = b
            /\ GetValue(EvalState(h3, cached_values), o).val = a
            /\ h3[o].override_stack = h1[o].override_stack
            /\ GetValue(EvalState(h4, cached_values), o).val
                    = GetValue(Now, o).val
            /\ h4[o].override_stack = objs[o].override_stack

\* inside two nested scopes on a computed node with a value of its own: the
\* inner value is seen, the outer one after one exit, the node's own result
\* after both
OverridesNestSeen ==
    \E o \in Objs :
        /\ scopes = <<o, o>>
        /\ Len(objs[o].override_stack) = 2
        /\ objs[o].is_computed /\ objs[o].result # None
        /\ objs[o].result \notin Range(objs[o].override_stack)
        /\ GetValue(EvalState(OverrideExitHeap(objs, o), cached_values), o).val
                = objs[o].override_stack[1]
        /\ GetValue(EvalState(OverrideExitHeap(OverrideExitHeap(objs, o), o),
                              cached_values), o).val = objs[o].result
        /\ \E d \in Range(objs[o].dependents) : objs[d].is_dirty

\* C27: symmetric push and pop of overrides.  Whatever was called since the
\* open with blocks were entered (get_value, compute, set_value, mark_dirty,
\* reset, further override scopes on the node), the node's stack holds exactly
\* the values the open blocks pushed, in order, so that each release pops
\* without error the value its block pushed and leaves the stack as it was
\* before the block; with no block open every stack is empty.
SymmetricPushPop ==
    /\ scopes = <<>> => \A o \in Objs : objs[o].override_stack = <<>>
    /\ scopes # <<>> =>
        /\ objs[scopes[Len(scopes)]].override_stack # <<>>
        /\ objs[scopes[1]].override_stack = [k \in 1..Len(scopes) |-> 5 + (k - 1)]

\* the registry and executor after graph.reset(): every registered node
\* reset, cached_values emptied, the eager flag cleared
AfterDagReset == EvalState(RegistryResetHeap(objs, nodes), <<>>)

\* C28: the executor's reset() re-arms evaluation.  With no override scope
\* open and every input holding a value, after graph.reset() every registered
\* node is uncomputed, dirty and without overrides, and the next
\* execute(target) completes an eager pass that calls again the function of
\* every EAGER node that was computed before the reset, and returns a value
\* computed by the target's function in that call.
ResetRearms ==
    (/\ scopes = <<>>
     /\ \A o \in Objs : objs[o].override_stack = <<>>
     /\ \A o \in Objs : objs[o].func = InputFn
                            => objs[o].is_computed /\ objs[o].result # None)
    => \A i \in 1..Len(nodes) :
        LET x == ExecuteDag(AfterDagReset, nodes, FALSE, nodes[i].name)
        IN  /\ x.err = "" /\ x.flag
            /\ \A j \in 1..Len(nodes) :
                LET o == nodes[j].obj
                IN  /\ ~AfterDagReset.h[o].is_computed
                    /\ AfterDagReset.h[o].is_dirty
                    /\ (objs[o].mode = EAGER /\ objs[o].is_computed
                            /\ objs[o].func # InputFn)
                       => Invoked(x.S, o)
            /\ objs[nodes[i].obj].func # InputFn => Invoked(x.S, nodes[i].obj)

\* C29: the identity of a cached node includes the key.  Calling one CACHED
\* factory with two different keys returns two distinct nodes registered
\* under the distinct names name_key, each without dependencies; calling it
\* again with a key already used returns the node created for that key, in
\* these calls and for every CACHED node the registry has created.
CachedIdentity ==
    /\ \A name \in BaseNames, d1 \in {Date1, Date2}, d2 \in {Date1, Date2} :
        d1 # d2 =>
            LET r1 == RegisterCached(Registry, name, d1, FALSE, 4)
                r2 == RegisterCached(r1.R, name, d2, FALSE, 4)
                r3 == RegisterCached(r2.R, name, d1, FALSE, 4)
            IN  /\ r1.ret # r2.ret
                /\ r2.R.objs[r1.ret].name = DatedName(name, d1)
                /\ r2.R.objs[r2.ret].name = DatedName(name, d2)
                /\ RegGet(r2.R.nodes, DatedName(name, d1)) = r1.ret
                /\ RegGet(r2.R.nodes, DatedName(name, d2)) = r2.ret
                /\ r2.R.objs[r1.ret].dependencies = <<>>
                /\ r2.R.objs[r2.ret].dependencies = <<>>
                /\ r3.ret = r1.ret /\ r3.R = r2.R
    /\ \A o \in Objs, name \in BaseNames :
        (objs[o].mode = CACHED /\ objs[o].name = DatedName(name, Date1))
        => RegisterCached(Registry, name, Date1, FALSE, 4).ret = o

\* every node of the transitive dependents closure of o is dirty in h
ClosureDirty(h, o) == \A d \in TransitiveDependents(objs, o) : h[d].is_dirty

\* C30: mark_dirty covers the full closure.  After mark_dirty() on a node,
\* the node and every node of its transitive dependents closure are dirty,
\* also when the node or a dependent in between was dirty before the call;
\* set_value, override enter and override exit dirty the same closure and
\* not the node itself.
FullClosureDirty ==
    \A o \in Objs :
        /\ MarkDirty(objs, o)[o].is_dirty
        /\ ClosureDirty(MarkDirty(objs, o), o)
        /\ \A v \in SetVals :
            objs[o].can_set
            => /\ ClosureDirty(SetValue(objs, o, v), o)
               /\ ~SetValue(objs, o, v)[o].is_dirty
        /\ ClosureDirty(OverrideEnterNode(objs, o, OverrideVal), o)
        /\ OverrideEnterNode(objs, o, OverrideVal)[o].is_dirty = objs[o].is_dirty
        /\ objs[o].override_stack # <<>>
            => /\ ClosureDirty(OverrideExitHeap(objs, o), o)
               /\ OverrideExitHeap(objs, o)[o].is_dirty = objs[o].is_dirty

\* a node that is dirty already, with a dependent that is computed and not
\* dirty: mark_dirty() on the node still reaches the dependent
FullClosureDirtySeen ==
    \E o \in Objs, d \in Objs :
        /\ objs[o].is_dirty /\ objs[o].is_computed
        /\ d \in Range(objs[o].dependents)
        /\ objs[d].is_computed /\ ~objs[d].is_dirty
        /\ MarkDirty(objs, o)[d].is_dirty
        /\ objs[o].dependencies # <<>>

RECURSIVE PassObjs(_)
\* the nodes of a topological order that are EAGER and not computed now, in
\* that order
PassObjs(order) ==
    IF order = <<>> THEN <<>>
    ELSE IF objs[RegGet(nodes, Head(order))].mode = EAGER
            /\ ~objs[RegGet(nodes, Head(order))].is_computed
    THEN <<RegGet(nodes, Head(order))>> \o PassObjs(Tail(order))
    ELSE PassObjs(Tail(order))

RECURSIVE ComputeAll(_, _)
\* compute() on each node of a list, once, in the order of the list
ComputeAll(S, os) ==
    IF os = <<>> THEN S
    ELSE ComputeAll(Compute(S, Head(os), FALSE).S, Tail(os))

\* C31: the eager pass computes exactly the EAGER nodes that are not computed.
\* A pass that runs (the flag is clear and the sort succeeds) leaves the state
\* that compute() leaves when called once on each EAGER node that is not
\* computed, in topological order, and on no other node; an EAGER node that
\* is computed (a set input, a computed but dirty node) is left as it is,
\* with its result, and its function is not called.
EagerPassExact ==
    LET t == TopologicalSort(objs, nodes)
        e == RunEagerNodes(Now, nodes, FALSE)
    IN  t.err = ""
        => /\ e.err = "" /\ e.flag
           /\ e.S = ComputeAll(Now, PassObjs(t.order))
           /\ \A i \in 1..Len(nodes) :
                (objs[nodes[i].obj].mode = EAGER /\ objs[nodes[i].obj].is_computed)
                => /\ e.S.h[nodes[i].obj] = objs[nodes[i].obj]
                   /\ ~Invoked(e.S, nodes[i].obj)

\* before a pass: a set input, an EAGER node that is computed but dirty and
\* whose recomputation would change its result, and an EAGER node that is not
\* computed and that the pass computes
EagerPassExactSeen ==
    /\ ~eager_executed
    /\ \E a \in Objs, b \in Objs, c \in Objs :
        /\ objs[a].func = InputFn /\ objs[a].is_computed /\ objs[a].result # None
        /\ objs[b].mode = EAGER /\ objs[b].is_computed /\ objs[b].is_dirty
        /\ objs[b].dependencies # <<>>
        /\ Compute(Now, b, FALSE).val # objs[b].result
        /\ objs[c].mode = EAGER /\ ~objs[c].is_computed
        /\ Invoked(RunEagerNodes(Now, nodes, FALSE).S, c)
        /\ RunEagerNodes(Now, nodes, FALSE).S.h[b].result = objs[b].result

LazyLike(o) == objs[o].mode = LAZY \/ objs[o].mode = CACHED

RECURSIVE FeedsEager(_)
\* o is a dependency of an EAGER node, directly or through a chain of LAZY
\* and CACHED nodes
FeedsEager(o) ==
    \E c \in Objs :
        /\ o \in Range(objs[c].dependencies)
        /\ objs[c].mode = EAGER \/ (LazyLike(c) /\ FeedsEager(c))

\* the number of calls of o's function recorded in S
Calls(S, o) == Cardinality({k \in 1..Len(S.inv) : S.inv[k] = o})

\* C32: LAZY and CACHED nodes are computed only on demand.  After an eager
\* pass on a graph whose LAZY and CACHED nodes were all uncomputed, a LAZY or
\* CACHED node is computed only if it feeds an EAGER node, directly or
\* through LAZY and CACHED nodes; one that feeds no EAGER node is as it was;
\* and the function of a node the pass forced was called exactly once,
\* however many consumers read it.
LazyOnDemand ==
    (\A o \in Objs : LazyLike(o) => ~objs[o].is_computed)
    => LET e == RunEagerNodes(Now, nodes, FALSE)
       IN  \A o \in Objs :
            LazyLike(o)
            => /\ e.S.h[o].is_computed => FeedsEager(o)
               /\ ~FeedsEager(o) => e.S.h[o] = objs[o] /\ Calls(e.S, o) = 0
               /\ Calls(e.S, o) = IF e.S.h[o].is_computed THEN 1 ELSE 0

\* a pass over a graph with a LAZY node read by two EAGER consumers: the pass
\* computes it once
LazyOnDemandSeen ==
    /\ \A o \in Objs : LazyLike(o) => ~objs[o].is_computed
    /\ \E o \in Objs, c1 \in Objs, c2 \in Objs :
        /\ objs[o].mode = LAZY /\ c1 # c2
        /\ objs[c1].mode = EAGER /\ o \in Range(objs[c1].dependencies)
        /\ objs[c2].mode = EAGER /\ o \in Range(objs[c2].dependencies)
        /\ Invoked(RunEagerNodes(Now, nodes, FALSE).S, c1)
        /\ Invoked(RunEagerNodes(Now, nodes, FALSE).S, c2)
        /\ RunEagerNodes(Now, nodes, FALSE).S.h[o].is_computed
        /\ Calls(RunEagerNodes(Now, nodes, FALSE).S, o) = 1

\* the place of a registered name in the registry (dict insertion order)
RegIndex(a) == CHOOSE i \in 1..Len(nodes) : nodes[i].name = a

\* the names of the dependencies of the node registered as a
DepNames(a) ==
    {objs[d].name : d \in Range(objs[RegGet(nodes, a)].dependencies)}

\* the place in the order of the last emitted dependency of a; 0 for a node
\* without dependencies
LastDep(order, a) ==
    IF DepNames(a) = {} THEN 0
    ELSE CHOOSE p \in {Position(order, d) : d \in DepNames(a)} :
            \A d \in DepNames(a) : Position(order, d) <= p

\* a renaming of the names that reverses their alphabetical order
Mirror(name) ==
    [k \in 1..Len(name) |-> Alphabet[Len(Alphabet) + 1 - CharRank(name[k])]]

\* C33: the topological order is the FIFO Kahn order.  When the sort
\* succeeds, a node comes before another if its last dependency is emitted
\* earlier (a node without dependencies counting as ready from the start),
\* and of two nodes ready at the same moment the one registered first comes
\* first: the nodes without dependencies lead, in registration order.  The
\* order does not depend on the names: renaming every node gives the same
\* order, renamed.
FifoKahnOrder ==
    LET t == TopologicalSort(objs, nodes)
        m == TopologicalSort(
                [o \in Objs |-> [objs[o] EXCEPT !.name = Mirror(@)]],
                [i \in 1..Len(nodes) |-> [nodes[i] EXCEPT !.name = Mirror(@)]])
    IN  t.err = ""
        => /\ \A a \in Names, b \in Names :
                (\/ LastDep(t.order, a) < LastDep(t.order, b)
                 \/ /\ LastDep(t.order, a) = LastDep(t.order, b)
                    /\ RegIndex(a) < RegIndex(b))
                => Position(t.order, a) < Position(t.order, b)
           /\ m.err = ""
           /\ m.order = [k \in 1..Len(t.order) |-> Mirror(t.order[k])]

\* a sorted graph in which two nodes without dependencies were registered
\* against the alphabet and two dependents of one node became ready together
FifoKahnOrderSeen ==
    LET t == TopologicalSort(objs, nodes)
    IN  /\ t.err = "" /\ Len(t.order) = 3
        /\ \E a \in Names, b \in Names :
            /\ a # b /\ LastDep(t.order, a) = LastDep(t.order, b)
            /\ RegIndex(a) < RegIndex(b) /\ NameLess(b, a)
            /\ Position(t.order, a) < Position(t.order, b)

\* C34: the back-link invariant.  For every node n and every node D in
\* n.dependencies, n occurs in D.dependents exactly once, also when D is
\* listed more than once for n; and D.dependents holds no node that does not
\* list D as a dependency.
BackLinks ==
    \A n \in Objs, D \in Objs :
        /\ D \in Range(objs[n].dependencies)
            => Cardinality({k \in 1..Len(objs[D].dependents) :
                                objs[D].dependents[k] = n}) = 1
        /\ n \in Range(objs[D].dependents)
            => D \in Range(objs[n].dependencies)

\* the part of the heap that is the graph: what each node is and how the
\* nodes are wired
Structure(h) ==
    [o \in 1..Len(h) |->
        [name |-> h[o].name, mode |-> h[o].mode, can_set |-> h[o].can_set,
         func |-> h[o].func, dependencies |-> h[o].dependencies,
         dependents |-> h[o].dependents]]

\* C35: resets leave the graph structure untouched.  node.reset() on any
\* node changes no node's name, mode, can_set, function, dependencies or
\* dependents, and a step that resets the registry (dag.reset(), or
\* graph.reset() which calls it) changes none of these either, leaves the
\* registered names with their nodes and the input_nodes table as they were,
\* and so leaves the outcome of the topological sort as it was.
ResetsKeepStructure ==
    [][/\ \A o \in Objs : Structure(ResetNode(objs, o)) = Structure(objs)
       /\ (objs' = RegistryResetHeap(objs, nodes) /\ cached_values' = <<>>)
          => /\ Structure(objs') = Structure(objs)
             /\ nodes' = nodes /\ input_nodes' = input_nodes
             /\ TopologicalSort(objs', nodes') = TopologicalSort(objs, nodes)]_vars

\* after graph.reset() on a graph that had been evaluated: a node with
\* dependencies and dependents that is uncomputed again, still wired and
\* still in the topological order
ResetsKeepStructureSeen ==
    /\ ~eager_executed /\ scopes = <<>>
    /\ \E i \in 1..Len(nodes) :
        /\ ~objs[nodes[i].obj].is_computed
        /\ objs[nodes[i].obj].result # None
        /\ objs[nodes[i].obj].dependencies # <<>>
        /\ objs[nodes[i].obj].dependents # <<>>
        /\ Contains(TopologicalSort(objs, nodes).order, nodes[i].name)
    /\ \A o \in Objs : ~objs[o].is_computed

\* C36: the flag invariant.  In every state reached through construction,
\* compute, get_value, set_value, override, mark_dirty and reset, no node is
\* both uncomputed and clean: not is_computed implies is_dirty.
FlagInvariant ==
    \A o \in Objs : ~objs[o].is_computed => objs[o].is_dirty

\* a node that was computed and clean, then reset: uncomputed and dirty, its
\* old result still there; next to it a computed clean node and a computed
\* dirty one
FlagInvariantSeen ==
    \E o \in Objs, p \in Objs, q \in Objs :
        /\ ~objs[o].is_computed /\ objs[o].is_dirty /\ objs[o].result # None
        /\ objs[o].dependencies # <<>>
        /\ objs[p].is_computed /\ ~objs[p].is_dirty
        /\ objs[q].is_computed /\ objs[q].is_dirty

\* C37: clean results are consistent with their inputs.  A node with
\* dependencies that is computed and not dirty and is not settable (its result
\* came from compute()) holds its function applied to the values that
\* get_value() of its dependencies returns now, whenever these are all ready.
CleanResultsConsistent ==
    \A i \in 1..Len(nodes) :
        LET o == nodes[i].obj
            dv == DepValues(Now, objs[o].dependencies, <<>>)
        IN  (/\ objs[o].is_computed /\ ~objs[o].is_dirty
             /\ objs[o].dependencies # <<>> /\ ~objs[o].can_set
             /\ dv.err = ""
             /\ \A k \in 1..Len(dv.vals) : dv.vals[k] # None)
            => objs[o].result = UserCall(objs[o].func, dv.vals).val

\* C38: a not-ready EAGER node becomes available once its input arrives.
\* After a completed eager pass that left a registered EAGER node uncomputed,
\* once get_value() of each of its dependencies gives a value (the missing
\* input was set) and no override is active, execute on that node returns its
\* function applied to those values.
EagerAfterInput ==
    \A i \in 1..Len(nodes) :
        LET o == nodes[i].obj
            dv == DepValues(Now, objs[o].dependencies, <<>>)
        IN  (/\ eager_executed /\ scopes = <<>>
             /\ \A p \in Objs : objs[p].override_stack = <<>>
             /\ objs[o].mode = EAGER /\ ~objs[o].is_computed
             /\ objs[o].result = None
             /\ objs[o].dependencies # <<>>
             /\ \E d \in Range(objs[o].dependencies) :
                    objs[d].func = InputFn /\ objs[d].is_computed
                        /\ ~objs[d].is_dirty /\ objs[d].result # None
             /\ \A k \in 1..Len(dv.vals) : dv.vals[k] # None)
            => ExecuteDag(Now, nodes, eager_executed, nodes[i].name).val
                    = UserCall(objs[o].func, dv.vals).val

RECURSIVE FirstFailure(_, _, _)
\* the position in a list of nodes, computed in the order of the list, of the
\* first node whose compute() raises; 0 if none does
FirstFailure(S, os, k) ==
    IF os = <<>> THEN 0
    ELSE IF Compute(S, Head(os), FALSE).err # "" THEN k
    ELSE FirstFailure(Compute(S, Head(os), FALSE).S, Tail(os), k + 1)

SetValueUnderOverride ==
    \A o \in Objs, v \in SetVals :
        (objs[o].can_set /\ objs[o].override_stack # <<>>)
        => LET w == OverrideTop(objs[o].override_stack)
               S1 == EvalState(SetValue(objs, o, v), cached_values)
           IN  /\ SetValueErr(objs, o) = ""
               /\ S1.h[o].override_stack = objs[o].override_stack
               /\ GetValue(S1, o) = Ret(S1, w, "")
               /\ \A d \in TransitiveDependents(objs, o) : S1.h[d].is_dirty
               /\ \A r \in Objs :
                    LET S2 == GetValue(S1, r).S
                        h3 == OverrideExitHeap(S2.h, o)
                    IN  /\ GetValue(S2, o).val = w
                        /\ \A d \in TransitiveDependents(objs, o) : h3[d].is_dirty
                        /\ GetValue(EvalState(h3, S2.cv), o).err = ""
                        /\ GetValue(EvalState(h3, S2.cv), o).val =
                            IF h3[o].override_stack = <<>> THEN v
                            ELSE OverrideTop(h3[o].override_stack)

\* inside one override scope on an input that was given the value 2: the
\* node reads as the override value, and a LAZY dependent has been computed
\* in the scope and is clean
SetValueUnderOverrideSeen ==
    \E o \in Objs :
        /\ objs[o].can_set
        /\ Len(objs[o].override_stack) = 1
        /\ scopes = <<o>>
        /\ objs[o].result = 2
        /\ GetValue(Now, o).val = OverrideTop(objs[o].override_stack)
        /\ GetValue(Now, o).val # 2
        /\ \E d \in TransitiveDependents(objs, o) :
            /\ objs[d].mode = LAZY
            /\ objs[d].is_computed /\ ~objs[d].is_dirty
            /\ objs[d].result # None

====
